---- MODULE Spec2Model ----
(***************************************************************************)
(* Model of the Al-Meezan fund tracker server (src/main.go): the field     *)
(* normalisers parseFloat / parseDate, the table extractor parseHTML, the  *)
(* transactional storeFunds, and the uploadHandler / healthHandler that    *)
(* drive them over a database/sql pool limited to one connection.          *)
(*                                                                         *)
(* Text is a sequence of lexical atoms (one-character strings, plus month  *)
(* names and multi-digit numerals where dates are concerned).              *)
(***************************************************************************)
EXTENDS Integers, Sequences, FiniteSets, TLC

\* ------------------------------------------------------------------------
\* Bounds of the exploration
\* ------------------------------------------------------------------------
MaxLen == 3          \* longest text handed to parseFloat on its own
MaxDocRows == 2      \* top-level table rows of an extracted document
NumReq == 2          \* concurrent upload requests

\* ------------------------------------------------------------------------
\* Program constants
\* ------------------------------------------------------------------------
MinColumns == 12
MaxOpenConns == 1
maxFileSize == 512 * 1024
DefaultAPIKey == <<"your-secret-api-key">>

\* ------------------------------------------------------------------------
\* strings.TrimSpace / strings.TrimRight
\* ------------------------------------------------------------------------
Space == {" "}

RECURSIVE TrimLeftSet(_, _)
TrimLeftSet(s, cutset) ==
    IF s # <<>> /\ Head(s) \in cutset THEN TrimLeftSet(Tail(s), cutset) ELSE s

RECURSIVE TrimRight(_, _)
TrimRight(s, cutset) ==
    IF s # <<>> /\ s[Len(s)] \in cutset
    THEN TrimRight(SubSeq(s, 1, Len(s) - 1), cutset)
    ELSE s

TrimSpace(s) == TrimRight(TrimLeftSet(s, Space), Space)

\* ------------------------------------------------------------------------
\* strconv.ParseFloat(value, 64), on texts over the atoms used here: decimal
\* digits with at most one point and at least one digit, or the special
\* value "NaN".  A decimal is kept as mantissa m and scale s (m / 10^s),
\* normalised so that equal numbers are equal values.
\* ------------------------------------------------------------------------
Digit == {"0", "1", "5"}
DigitVal(c) == CASE c = "0" -> 0 [] c = "1" -> 1 [] c = "5" -> 5

RECURSIVE NatOf(_)
NatOf(ds) == IF ds = <<>> THEN 0
             ELSE 10 * NatOf(SubSeq(ds, 1, Len(ds) - 1)) + DigitVal(ds[Len(ds)])

RECURSIVE Normalise(_, _)
Normalise(m, s) == IF s > 0 /\ m % 10 = 0 THEN Normalise(m \div 10, s - 1)
                   ELSE [kind |-> "num", m |-> m, s |-> s]

IsDigit(c) == c \in Digit
Points(s) == {i \in 1..Len(s) : s[i] = "."}
IsDecimal(s) ==
    /\ \A i \in 1..Len(s) : s[i] \in Digit \cup {"."}
    /\ Cardinality(Points(s)) <= 1
    /\ \E i \in 1..Len(s) : s[i] \in Digit

IsNaNText(s) == Len(s) = 3 /\ s[1] \in {"N", "n"} /\ s[2] \in {"a", "A"} /\ s[3] \in {"N", "n"}

ParseErr == [kind |-> "err"]
NaN == [kind |-> "NaN"]

StrconvParseFloat(s) ==
    IF IsNaNText(s) THEN NaN
    ELSE IF IsDecimal(s)
         THEN LET p == IF Points(s) = {} THEN Len(s) + 1 ELSE CHOOSE i \in Points(s) : TRUE
                  ds == SelectSeq(s, IsDigit)
              IN  Normalise(NatOf(ds), Len(s) - p - (IF Points(s) = {} THEN -1 ELSE 0))
         ELSE ParseErr

\* ------------------------------------------------------------------------
\* parseFloat
\* ------------------------------------------------------------------------
Nil == [kind |-> "nil"]

parseFloat(value) ==
    LET v1 == TrimSpace(value)
        v2 == TrimRight(v1, {"*", "%"})
    IN  IF v2 = <<>> THEN Nil
        ELSE LET num == StrconvParseFloat(v2)
             IN  IF num = ParseErr THEN Nil ELSE num

\* ------------------------------------------------------------------------
\* time.Parse for the layouts the program uses.  A time is a calendar date
\* plus a clock part (0 at midnight UTC, as time.Parse yields for a layout
\* without a clock).
\* ------------------------------------------------------------------------
MonthAbbr == {"Jan", "Mar"}
MonthFull == {"January", "March"}
MonthNum(a) == CASE a \in {"Jan", "January", "01"} -> 1
                 [] a \in {"Mar", "March", "03"} -> 3
Years == {"2024"}
YearNum(a) == CASE a = "2024" -> 2024
Days == {"1", "5"}
DayNum(a) == CASE a \in {"1", "01"} -> 1 [] a = "5" -> 5

Time(y, m, d, clock) == [kind |-> "time", y |-> y, m |-> m, d |-> d, clock |-> clock]

MonthDigits == {"01", "03"}
DayDigits == {"01"}

\* layout elements: "Mon" = Jan, "Month" = January, "MM" = 01, "D" = 2,
\* "DD" = 02, "Y" = 2006; anything else stands for itself
MonthElems == {"Mon", "Month", "MM"}
DayElems == {"D", "DD"}
ElemMatches(e, a) ==
    CASE e = "Mon"   -> a \in MonthAbbr
      [] e = "Month" -> a \in MonthFull
      [] e = "MM"    -> a \in MonthDigits
      [] e = "D"     -> a \in Days
      [] e = "DD"    -> a \in DayDigits
      [] e = "Y"     -> a \in Years
      [] OTHER       -> a = e

LayoutMatches(layout, s) ==
    /\ Len(s) = Len(layout)
    /\ \A i \in 1..Len(layout) : ElemMatches(layout[i], s[i])

Pick(layout, s, elems) == s[CHOOSE i \in 1..Len(layout) : layout[i] \in elems]

TimeParse(layout, s) ==
    IF LayoutMatches(layout, s)
    THEN Time(YearNum(Pick(layout, s, {"Y"})),
              MonthNum(Pick(layout, s, MonthElems)),
              DayNum(Pick(layout, s, DayElems)), 0)
    ELSE ParseErr

\* ------------------------------------------------------------------------
\* parseDate
\* ------------------------------------------------------------------------
formats == << <<"Mon", " ", "D", ",", " ", "Y">>,
              <<"D", " ", "Mon", ",", " ", "Y">>,
              <<"Month", " ", "D", ",", " ", "Y">>,
              <<"D", " ", "Month", ",", " ", "Y">> >>

parseDate(date) ==
    LET d == TrimSpace(date)
        ok == {i \in 1..Len(formats) : TimeParse(formats[i], d) # ParseErr}
    IN  IF d = <<>> THEN Nil
        ELSE IF ok = {} THEN Nil
        ELSE TimeParse(formats[CHOOSE i \in ok : \A j \in ok : i <= j], d)

\* ------------------------------------------------------------------------
\* The HTML document, after html.Parse: a sequence of table rows; a row has
\* its align attribute and its own cells; a cell has its own text and the
\* rows of a table nested inside it (text first, then the table).
\* ------------------------------------------------------------------------
RECURSIVE FindTdCells(_), FindTdRows(_)
\* Selection.Find("td") below a row: every descendant td, in document order
FindTdCells(cells) ==
    IF cells = <<>> THEN <<>>
    ELSE <<Head(cells)>> \o FindTdRows(Head(cells).nested) \o FindTdCells(Tail(cells))
FindTdRows(rows) ==
    IF rows = <<>> THEN <<>>
    ELSE FindTdCells(Head(rows).cells) \o FindTdRows(Tail(rows))

FindTd(row) == FindTdCells(row.cells)

RECURSIVE CellsText(_), RowsText(_)
\* Selection.Text(): the text of the node and of all its descendants
CellsText(cells) ==
    IF cells = <<>> THEN <<>>
    ELSE Head(cells).text \o RowsText(Head(cells).nested) \o CellsText(Tail(cells))
RowsText(rows) ==
    IF rows = <<>> THEN <<>>
    ELSE CellsText(Head(rows).cells) \o RowsText(Tail(rows))

NodeText(cell) == cell.text \o RowsText(cell.nested)

RECURSIVE FindRows(_), FindRowsInCells(_)
\* doc.Find("tr[align='center']"): every matching row at any depth, in
\* document order (a row before the rows nested in its cells)
FindRows(rows) ==
    IF rows = <<>> THEN <<>>
    ELSE (IF Head(rows).align THEN <<Head(rows)>> ELSE <<>>)
         \o FindRowsInCells(Head(rows).cells) \o FindRows(Tail(rows))
FindRowsInCells(cells) ==
    IF cells = <<>> THEN <<>>
    ELSE FindRows(Head(cells).nested) \o FindRowsInCells(Tail(cells))

\* ------------------------------------------------------------------------
\* parseHTML
\* ------------------------------------------------------------------------
cleanText(columns, idx) == TrimSpace(NodeText(columns[idx + 1]))

\* the row is kept unless columns.Length() < 12
HasRequiredColumns(row) == ~ (Len(FindTd(row)) < MinColumns)

MkFund(row, uploadDate) ==
    LET columns == FindTd(row)
    IN  [Name           |-> TrimRight(cleanText(columns, 0), {"*"}),
         LaunchDate     |-> parseDate(cleanText(columns, 1)),
         ValidityDate   |-> parseDate(cleanText(columns, 2)),
         Repurchase     |-> parseFloat(cleanText(columns, 3)),
         Offer          |-> parseFloat(cleanText(columns, 4)),
         NAV            |-> parseFloat(cleanText(columns, 5)),
         MTD            |-> parseFloat(cleanText(columns, 6)),
         FYTD           |-> parseFloat(cleanText(columns, 7)),
         CYTD           |-> parseFloat(cleanText(columns, 8)),
         FY24           |-> parseFloat(cleanText(columns, 9)),
         FY23           |-> parseFloat(cleanText(columns, 10)),
         SinceInception |-> parseFloat(cleanText(columns, 11)),
         UploadDate     |-> uploadDate]

\* the rows the Each callback appends a fund for, in order
KeptRows(document) == SelectSeq(FindRows(document), HasRequiredColumns)

parseHTML(document, uploadDate) ==
    LET kept == KeptRows(document)
    IN  [i \in 1..Len(kept) |-> MkFund(kept[i], uploadDate)]

\* ------------------------------------------------------------------------
\* Inputs of the exploration: texts and documents
\* ------------------------------------------------------------------------
Alphabet == {"0", "1", ".", "*", "%", " ", "N", "a"}
Texts == UNION {[1..k -> Alphabet] : k \in 0..MaxLen}

DateText == <<"Jan", " ", "5", ",", " ", "2024">>
NumText == <<"1", ".", "5">>
NaNText == <<"N", "a", "N">>
NameTexts == {<<"A">>, <<>>, <<" ">>, <<"*", "*">>, <<"A", "*">>, <<"A", " ", "*">>}
OddTexts == {<<"x">>, <<>>, NaNText, <<"1", " ", "*">>}

PlainCell(t) == [text |-> t, nested |-> <<>>]
PlainRow(align, n, name, odd, oddText) ==
    [align |-> align,
     cells |-> [i \in 1..n |-> PlainCell(IF i = odd THEN oddText
                                         ELSE IF i = 1 THEN name
                                         ELSE IF i \in {2, 3} THEN DateText
                                         ELSE NumText)]]

\* a row description: own cells, the name text, one cell (odd) holding
\* another text, and a table of one row with nestCols cells inside cell 1
BaseShape == [align |-> TRUE, own |-> MinColumns, name |-> <<"A">>, odd |-> 0,
              oddText |-> <<>>, nestCols |-> 0, nestAlign |-> FALSE]
RowShapes ==
    {[BaseShape EXCEPT !.align = a, !.own = n] :
        a \in BOOLEAN, n \in {1, MinColumns - 1, MinColumns, MinColumns + 1}}
    \cup {[BaseShape EXCEPT !.name = nm] : nm \in NameTexts}
    \cup {[BaseShape EXCEPT !.odd = k, !.oddText = t] : k \in {2, 4}, t \in OddTexts}
    \cup {[BaseShape EXCEPT !.own = n, !.nestCols = MinColumns - 1, !.nestAlign = a] :
            n \in {1, MinColumns}, a \in BOOLEAN}

MkRow(p) ==
    LET plain == PlainRow(p.align, p.own, p.name, p.odd, p.oddText)
    IN  IF p.nestCols = 0 THEN plain
        ELSE [plain EXCEPT !.cells[1].nested =
                 << PlainRow(p.nestAlign, p.nestCols, <<"B">>, 0, <<>>) >>]

RowSet == {MkRow(p) : p \in RowShapes}
DocSet == UNION {[1..k -> RowSet] : k \in 0..MaxDocRows}

ParsedDay == Time(2024, 3, 1, 0)       \* time.Parse("2006-01-02", "2024-03-01")
NowTime == Time(2026, 11, 2, 1)        \* a time.Now(): a date with a clock part

\* ------------------------------------------------------------------------
\* getEnv and the configuration built by main
\* ------------------------------------------------------------------------
Unset == [set |-> FALSE, val |-> <<>>]
SetTo(v) == [set |-> TRUE, val |-> v]
Envs == {Unset, SetTo(<<>>), SetTo(<<"k">>)}       \* API_KEY in the environment

getEnv(e, fallback) == IF e.set THEN e.val ELSE fallback

Config(e) == [APIKey |-> getEnv(e, DefaultAPIKey)]

\* ------------------------------------------------------------------------
\* Requests.  The uploaded file is given as the document html.Parse builds
\* from its unescaped content (ok = FALSE: goquery cannot build one).
\* ------------------------------------------------------------------------
NoHeader == [present |-> FALSE, val |-> <<>>]
Header(v) == [present |-> TRUE, val |-> v]
\* http.Header.Get: "" when the header is absent
HeaderGet(h) == IF h.present THEN h.val ELSE <<>>

Headers == {NoHeader, Header(<<>>), Header(<<"k">>), Header(DefaultAPIKey)}

GoodDate == <<"2024", "-", "03", "-", "01">>
BadDate == <<"03", "/", "01", "/", "2024">>
FormDates == {<<>>, GoodDate, BadDate}
DateLayout == <<"Y", "-", "MM", "-", "DD">>

FundRow(name) == PlainRow(TRUE, MinColumns, name, 0, <<>>)
ShortRow == PlainRow(TRUE, MinColumns - 1, <<"A">>, 0, <<>>)
NaNRow == PlainRow(TRUE, MinColumns, <<"A">>, 4, NaNText)
OneFundDoc == <<FundRow(<<"A">>)>>
TwoFundDoc == <<FundRow(<<"A">>), FundRow(<<"B", "*">>)>>
Html(d) == [ok |-> TRUE, rows |-> d]
Unparsable == [ok |-> FALSE, rows |-> <<>>]
UploadFiles == {Html(<<>>), Html(<<ShortRow>>), Html(OneFundDoc), Html(TwoFundDoc),
                Html(<<NaNRow>>), Unparsable}

Inputs ==
    [header : Headers, method : {"POST", "GET"}, formOK : BOOLEAN, hasFile : BOOLEAN,
     date : FormDates, size : {maxFileSize, maxFileSize + 1}, readOK : BOOLEAN,
     html : UploadFiles, now : {NowTime}]

\* well-formed, authenticated uploads of a file with funds: the requests
\* that reach storeFunds
StoreInputs(cfg) ==
    [header : {Header(cfg.APIKey)}, method : {"POST"}, formOK : {TRUE}, hasFile : {TRUE},
     date : {GoodDate}, size : {maxFileSize}, readOK : {TRUE},
     html : {Html(OneFundDoc), Html(TwoFundDoc)}, now : {NowTime}]

Reqs == 1..NumReq

\* ------------------------------------------------------------------------
\* State
\* ------------------------------------------------------------------------
VARIABLES
    value, num,              \* parseFloat: its argument and its return value
    document, uploadDate,    \* parseHTML: its arguments
    parsed,                  \* parseHTML: Pending, or its return value (funds)
    config,                  \* Server.config
    tbl,                     \* the funds table: rows in rowid order, each with
                             \* the transaction that wrote it and whether that
                             \* transaction has committed
    openConns,               \* connections of s.db in use
    req,                     \* per request: position in uploadHandler and locals
    health                   \* status of the last /health response (0: none)

vars == <<value, num, document, uploadDate, parsed, config, tbl, openConns, req, health>>
pureVars == <<value, num, document, uploadDate, parsed>>
serverVars == <<config, tbl, openConns, req, health>>

Pending == [kind |-> "pending"]

NoInput == [header |-> NoHeader, method |-> "GET", formOK |-> FALSE, hasFile |-> FALSE,
            date |-> <<>>, size |-> 0, readOK |-> FALSE, html |-> Unparsable,
            now |-> NowTime]

\* called: which of parseHTML / storeFunds the handler has called;
\* storeErr: storeFunds returned an error; before: the committed rows when
\* the transaction began
IdleReq == [pc |-> "idle", in |-> NoInput, uploadDate |-> NowTime, funds |-> <<>>,
            i |-> 0, status |-> 0, body |-> <<>>, called |-> {}, storeErr |-> FALSE,
            before |-> <<>>]

ServerIdle ==
    /\ openConns = 0
    /\ req = [r \in Reqs |-> IdleReq]
    /\ health = 0

\* ------------------------------------------------------------------------
\* parseFloat on its own
\* ------------------------------------------------------------------------
CallParseFloat ==
    /\ num = Pending
    /\ num' = parseFloat(value)
    /\ UNCHANGED <<value, document, uploadDate, parsed>>
    /\ UNCHANGED serverVars

InitFloat ==
    /\ value \in Texts
    /\ num = Pending
    /\ document = <<>> /\ uploadDate = NowTime /\ parsed = Pending
    /\ config = Config(Unset) /\ tbl = <<>> /\ ServerIdle

SpecFloat == InitFloat /\ [][CallParseFloat]_vars

\* ------------------------------------------------------------------------
\* parseHTML on its own
\* ------------------------------------------------------------------------
CallParseHTML ==
    /\ parsed = Pending
    /\ parsed' = [kind |-> "funds", funds |-> parseHTML(document, uploadDate)]
    /\ UNCHANGED <<value, num, document, uploadDate>>
    /\ UNCHANGED serverVars

InitHTML ==
    /\ document \in DocSet
    /\ uploadDate \in {ParsedDay, NowTime}
    /\ parsed = Pending
    /\ value = <<>> /\ num = Pending
    /\ config = Config(Unset) /\ tbl = <<>> /\ ServerIdle

SpecHTML == InitHTML /\ [][CallParseHTML]_vars

\* ------------------------------------------------------------------------
\* Properties of the field normaliser and the table extractor
\* ------------------------------------------------------------------------
Junk == {" ", "*", "%"}
\* the text with leading whitespace and every trailing marker / whitespace
\* character removed
Core(s) == TrimRight(TrimLeftSet(s, Space), Junk)
DecimalLike(s) == IsDecimal(Core(s))

\* C8: for decimal-like text followed by '*' / '%' and whitespace in any
\* arrangement, parseFloat returns the value of the stripped text; for every
\* other (empty or non-numeric) text it returns absent.
C8_StrippedValueOrAbsent ==
    num # Pending =>
        IF DecimalLike(value) THEN num = StrconvParseFloat(Core(value))
        ELSE num = Nil

OwnColumns(row) == Len(row.cells)

\* C6: no fund of the result comes from a row with fewer than 12 columns of
\* its own (the i-th fund comes from the i-th kept row).
C6_NoShortRowExtracted ==
    parsed # Pending =>
        \A i \in 1..Len(parsed.funds) :
            OwnColumns(KeptRows(document)[i]) >= MinColumns

OwnQualifies(row) == OwnColumns(row) >= MinColumns
QualifyingRows(d) == SelectSeq(FindRows(d), OwnQualifies)
\* the row with each own cell reduced to its text content
FlatRow(row) ==
    [align |-> row.align,
     cells |-> [i \in 1..Len(row.cells) |-> PlainCell(NodeText(row.cells[i]))]]

\* C7: the result is exactly one fund per qualifying row (12 or more own
\* columns), in document order, each built field by field from that row's
\* own cells and carrying uploadDate.
C7_OneFundPerQualifyingRow ==
    parsed # Pending =>
        LET q == QualifyingRows(document)
        IN  parsed.funds = [i \in 1..Len(q) |-> MkFund(FlatRow(q[i]), uploadDate)]

\* C10: every extracted fund has a non-empty name that does not end in '*'.
C10_NameNonEmptyNoAsterisk ==
    parsed # Pending =>
        \A i \in 1..Len(parsed.funds) :
            LET n == parsed.funds[i].Name
            IN  n # <<>> /\ n[Len(n)] # "*"

\* ------------------------------------------------------------------------
\* storeFunds: the values bound to the INSERT, and the transaction
\* ------------------------------------------------------------------------
Null == [kind |-> "NULL"]
RFC3339(t) == [kind |-> "RFC3339", y |-> t.y, m |-> t.m, d |-> t.d, clock |-> t.clock]

formatDate(t) == IF t = Nil THEN Null ELSE RFC3339(t)
\* a nil *float64 is bound as NULL
Real(x) == IF x = Nil THEN Null ELSE x

StoredRow(fund) ==
    [name            |-> fund.Name,
     launch_date     |-> formatDate(fund.LaunchDate),
     validity_date   |-> formatDate(fund.ValidityDate),
     repurchase      |-> Real(fund.Repurchase),
     offer           |-> Real(fund.Offer),
     nav             |-> Real(fund.NAV),
     mtd             |-> Real(fund.MTD),
     fytd            |-> Real(fund.FYTD),
     cytd            |-> Real(fund.CYTD),
     fy24            |-> Real(fund.FY24),
     fy23            |-> Real(fund.FY23),
     since_inception |-> Real(fund.SinceInception),
     upload_date     |-> RFC3339(fund.UploadDate)]

\* a row already in the table when the server starts
OldRow == [row |-> StoredRow(MkFund(FundRow(<<"Z">>), ParsedDay)), tx |-> 0,
           committed |-> TRUE]

\* what a reader of the table sees
Committed(t) ==
    LET IsCommitted(e) == e.committed
    IN  SelectSeq(t, IsCommitted)

\* stmt.ExecContext inside the transaction of request r
InsertRow(t, r, fund) == Append(t, [row |-> StoredRow(fund), tx |-> r, committed |-> FALSE])

\* tx.Commit: the rows the transaction wrote become visible together
CommitTx(t, r) ==
    [k \in 1..Len(t) |-> IF t[k].tx = r THEN [t[k] EXCEPT !.committed = TRUE] ELSE t[k]]

\* mutant of Rollback: the deferred call commits instead of rolling back
RollbackCommits(t, r) == CommitTx(t, r)

\* tx.Rollback (deferred): the rows the transaction wrote are discarded
Rollback(t, r) ==
    LET Kept(e) == ~ (e.tx = r /\ ~ e.committed)
    IN  SelectSeq(t, Kept)

\* mutant of ConnAvailable: the pool without SetMaxOpenConns
ConnUnlimited(n) == TRUE

\* db.SetMaxOpenConns(1): a connection is handed out only below the limit
ConnAvailable(n) == n < MaxOpenConns

\* ------------------------------------------------------------------------
\* json.NewEncoder(w).Encode(funds)
\* ------------------------------------------------------------------------
Omitted == [kind |-> "omitted"]
OmitEmpty(x) == IF x = Nil THEN Omitted ELSE x
OmitEmptyDate(t) == IF t = Nil THEN Omitted ELSE RFC3339(t)

FloatFields == {"Repurchase", "Offer", "NAV", "MTD", "FYTD", "CYTD", "FY24", "FY23",
                "SinceInception"}
\* encoding/json rejects NaN (UnsupportedValueError)
Encodable(fs) == \A k \in 1..Len(fs) : \A f \in FloatFields : fs[k][f] # NaN

JSONObject(fund) ==
    [name            |-> fund.Name,
     launch_date     |-> OmitEmptyDate(fund.LaunchDate),
     validity_date   |-> OmitEmptyDate(fund.ValidityDate),
     repurchase      |-> OmitEmpty(fund.Repurchase),
     offer           |-> OmitEmpty(fund.Offer),
     nav             |-> OmitEmpty(fund.NAV),
     mtd             |-> OmitEmpty(fund.MTD),
     fytd            |-> OmitEmpty(fund.FYTD),
     cytd            |-> OmitEmpty(fund.CYTD),
     fy24            |-> OmitEmpty(fund.FY24),
     fy23            |-> OmitEmpty(fund.FY23),
     since_inception |-> OmitEmpty(fund.SinceInception),
     upload_date     |-> RFC3339(fund.UploadDate)]

JSONArray(fs) == [k \in 1..Len(fs) |-> JSONObject(fs[k])]

\* ------------------------------------------------------------------------
\* uploadHandler, up to the call of storeFunds
\* ------------------------------------------------------------------------
Unauthorized(in, cfg) == HeaderGet(in.header) # cfg.APIKey
BadDateString(in) == in.date # <<>> /\ TimeParse(DateLayout, in.date) = ParseErr
\* mutant of TooLarge: the comparison off by one
TooLargeOffByOne(size) == size > maxFileSize + 1
TooLarge(size) == size > maxFileSize
\* mutant of NoFunds: the empty result is not checked
NoFundsUnchecked(fs) == FALSE
NoFunds(fs) == Len(fs) = 0

Reject(status, called) ==
    [status |-> status, uploadDate |-> NowTime, funds |-> <<>>, called |-> called]

\* status 0: the handler goes on to storeFunds
Validate(in, cfg) ==
    IF Unauthorized(in, cfg) THEN Reject(401, {})
    ELSE IF in.method # "POST" THEN Reject(405, {})
    ELSE IF ~ in.formOK THEN Reject(400, {})
    ELSE IF ~ in.hasFile THEN Reject(400, {})
    ELSE IF BadDateString(in) THEN Reject(400, {})
    ELSE LET ud == IF in.date # <<>> THEN TimeParse(DateLayout, in.date) ELSE in.now
         IN  IF TooLarge(in.size) THEN Reject(413, {})
             ELSE IF ~ in.readOK THEN Reject(500, {})
             ELSE IF ~ in.html.ok THEN Reject(500, {"parseHTML"})
             ELSE LET fs == parseHTML(in.html.rows, ud)
                  IN  IF NoFunds(fs) THEN Reject(400, {"parseHTML"})
                      ELSE [status |-> 0, uploadDate |-> ud, funds |-> fs,
                            called |-> {"parseHTML", "storeFunds"}]

Receive(r, in) ==
    /\ req[r].pc = "idle"
    /\ LET v == Validate(in, config)
       IN  req' = [req EXCEPT ![r] =
                      [@ EXCEPT !.in = in, !.status = v.status, !.uploadDate = v.uploadDate,
                                !.funds = v.funds, !.called = v.called,
                                !.pc = IF v.status = 0 THEN "begin" ELSE "done"]]
    /\ UNCHANGED <<config, tbl, openConns, health>>
    /\ UNCHANGED pureVars

\* storeFunds returns an error: the handler answers 500
StoreFailed(r) == [req[r] EXCEPT !.pc = "done", !.status = 500, !.storeErr = TRUE]

\* s.db.BeginTx: waits for the connection
BeginTx(r) ==
    /\ req[r].pc = "begin"
    /\ ConnAvailable(openConns)
    /\ openConns' = openConns + 1
    /\ req' = [req EXCEPT ![r] = [@ EXCEPT !.pc = "prepare", !.before = Committed(tbl)]]
    /\ UNCHANGED <<config, tbl, health>>
    /\ UNCHANGED pureVars

BeginTxFails(r) ==
    /\ req[r].pc = "begin"
    /\ req' = [req EXCEPT ![r] = [StoreFailed(r) EXCEPT !.before = Committed(tbl)]]
    /\ UNCHANGED <<config, tbl, openConns, health>>
    /\ UNCHANGED pureVars

\* leaving storeFunds with an open transaction: the deferred Rollback
Abort(r) ==
    /\ tbl' = Rollback(tbl, r)
    /\ openConns' = openConns - 1
    /\ req' = [req EXCEPT ![r] = StoreFailed(r)]
    /\ UNCHANGED <<config, health>>
    /\ UNCHANGED pureVars

Prepare(r) ==
    /\ req[r].pc = "prepare"
    /\ req' = [req EXCEPT ![r] = [@ EXCEPT !.pc = "insert", !.i = 1]]
    /\ UNCHANGED <<config, tbl, openConns, health>>
    /\ UNCHANGED pureVars

PrepareFails(r) == req[r].pc = "prepare" /\ Abort(r)

Exec(r) ==
    /\ req[r].pc = "insert"
    /\ tbl' = InsertRow(tbl, r, req[r].funds[req[r].i])
    /\ req' = [req EXCEPT ![r] =
                  IF @.i = Len(@.funds) THEN [@ EXCEPT !.pc = "commit"]
                  ELSE [@ EXCEPT !.i = @ + 1]]
    /\ UNCHANGED <<config, openConns, health>>
    /\ UNCHANGED pureVars

ExecFails(r) == req[r].pc = "insert" /\ Abort(r)

Commit(r) ==
    /\ req[r].pc = "commit"
    /\ tbl' = CommitTx(tbl, r)
    /\ openConns' = openConns - 1
    /\ req' = [req EXCEPT ![r] = [@ EXCEPT !.pc = "encode"]]
    /\ UNCHANGED <<config, health>>
    /\ UNCHANGED pureVars

CommitFails(r) == req[r].pc = "commit" /\ Abort(r)

\* the rest of uploadHandler after storeFunds returned nil
Encode(r) ==
    /\ req[r].pc = "encode"
    /\ req' = [req EXCEPT ![r] =
                  IF Encodable(req[r].funds)
                  THEN [@ EXCEPT !.pc = "done", !.status = 200,
                                 !.body = JSONArray(req[r].funds)]
                  ELSE [@ EXCEPT !.pc = "done", !.status = 500]]
    /\ UNCHANGED <<config, tbl, openConns, health>>
    /\ UNCHANGED pureVars

\* healthHandler: PingContext needs the connection
Health ==
    /\ \/ ConnAvailable(openConns) /\ health' = 200
       \/ health' = 503
    /\ UNCHANGED <<config, tbl, openConns, req>>
    /\ UNCHANGED pureVars

StoreSteps(r) ==
    \/ BeginTx(r) \/ BeginTxFails(r)
    \/ Prepare(r) \/ PrepareFails(r)
    \/ Exec(r) \/ ExecFails(r)
    \/ Commit(r) \/ CommitFails(r)
    \/ Encode(r)

\* the server after NewServer, started with API_KEY as e gives it
InitServer(e) ==
    /\ config = Config(e)
    /\ tbl \in {<<>>, <<OldRow>>}
    /\ ServerIdle
    /\ value = <<>> /\ num = Pending
    /\ document = <<>> /\ uploadDate = NowTime /\ parsed = Pending

\* started without API_KEY
Init == InitServer(Unset)

\* concurrent uploads that reach storeFunds, and health checks
Next ==
    \/ \E r \in Reqs : \E in \in StoreInputs(config) : Receive(r, in)
    \/ \E r \in Reqs : StoreSteps(r)
    \/ Health

Spec == Init /\ [][Next]_vars

\* one upload request with any input
NextUpload ==
    \/ \E in \in Inputs : Receive(1, in)
    \/ StoreSteps(1)

\* started with any API_KEY setting
InitUpload == \E e \in Envs : InitServer(e)

SpecUpload == InitUpload /\ [][NextUpload]_vars

\* ------------------------------------------------------------------------
\* Properties of storeFunds and uploadHandler
\* ------------------------------------------------------------------------
RowsOf(t, r) ==
    LET Mine(e) == e.tx = r
    IN  SelectSeq(t, Mine)

InStore(q) == q.pc \in {"begin", "prepare", "insert", "commit"}

\* C1: whenever storeFunds returns an error (at begin, prepare, any insert
\* or commit), the committed table is what it was when the transaction began
\* and no row of that batch remains in the table.
C1_StoreErrorLeavesTable ==
    [][\A r \in Reqs :
          (InStore(req[r]) /\ req'[r].storeErr) =>
              /\ Committed(tbl') = req'[r].before
              /\ Committed(tbl') = Committed(tbl)
              /\ RowsOf(tbl', r) = <<>>]_vars

\* C1 witness: a store that failed after its first insert had succeeded
C1_Witness ==
    \E r \in Reqs :
        /\ req[r].pc = "done" /\ req[r].storeErr
        /\ req[r].i = 2 /\ Len(req[r].funds) = 2
        /\ RowsOf(tbl, r) = <<>>

OpenTx == {r \in Reqs : req[r].pc \in {"prepare", "insert", "commit"}}

\* C5: at most one transaction is open; the rows of two batches are never
\* interleaved in the table; the committed table holds every batch entirely
\* or not at all.
C5_Serialized ==
    /\ Cardinality(OpenTx) <= 1
    /\ \A i, j, k \in 1..Len(tbl) :
          (i < j /\ j < k /\ tbl[i].tx = tbl[k].tx) => tbl[j].tx = tbl[i].tx
    /\ \A r \in Reqs :
          Len(RowsOf(Committed(tbl), r)) \in {0, Len(req[r].funds)}

\* C5 witness: one request inside its transaction with a row inserted while
\* another waits for the connection
C5_Witness ==
    \E r1, r2 \in Reqs :
        /\ r1 # r2
        /\ req[r1].pc = "insert" /\ req[r1].i = 2
        /\ Len(RowsOf(tbl, r1)) = 1
        /\ req[r2].pc = "begin"

Authenticated(q) == HeaderGet(q.in.header) = config.APIKey
WellFormed(q) == Authenticated(q) /\ q.in.method = "POST" /\ q.in.formOK /\ q.in.hasFile
MalformedDate(q) == q.in.date \notin {<<>>, GoodDate}
Oversized(q) == q.in.size > maxFileSize
ZeroRows(q) ==
    /\ q.in.readOK /\ q.in.html.ok
    /\ Len(parseHTML(q.in.html.rows, q.in.now)) = 0
InputError(q) ==
    \/ ~ WellFormed(q) \/ MalformedDate(q) \/ Oversized(q) \/ ZeroRows(q)

\* C2: a request whose X-API-Key header is absent, or differs from the
\* configured key, is answered 401 and adds no row.
C2_NoKeyNoEntry ==
    \A r \in Reqs :
        (req[r].pc = "done"
           /\ (~ req[r].in.header.present \/ req[r].in.header.val # config.APIKey)) =>
            req[r].status = 401 /\ RowsOf(tbl, r) = <<>>

\* C3: a request with an input error is answered 4xx, storeFunds is never
\* called for it and the table has no row of it; a file with no qualifying
\* row is answered 400.
C3_InputErrorNoStore ==
    \A r \in Reqs :
        (req[r].pc # "idle" /\ InputError(req[r])) =>
            /\ req[r].pc = "done"
            /\ req[r].status \in 400..499
            /\ "storeFunds" \notin req[r].called
            /\ RowsOf(tbl, r) = <<>>
            /\ (WellFormed(req[r]) /\ ~ MalformedDate(req[r]) /\ ~ Oversized(req[r]))
                  => req[r].status = 400

\* C3 witness: a well-formed upload of a file without qualifying rows
C3_Witness ==
    \E r \in Reqs :
        /\ req[r].pc = "done" /\ req[r].status = 400
        /\ req[r].in.html = Html(<<ShortRow>>)
        /\ "parseHTML" \in req[r].called
        /\ tbl = <<OldRow>>

\* C4: a well-formed authenticated upload within the cap, with a date D and
\* K >= 1 extracted funds, whose storage does not fail, is answered 200 with
\* K objects dated D, after K rows dated D have been committed.
C4_UploadStoresAndEchoes ==
    \A r \in Reqs :
        LET q == req[r]
            D == TimeParse(DateLayout, q.in.date)
            K == Len(parseHTML(q.in.html.rows, D))
            rows == RowsOf(Committed(tbl), r)
        IN  (q.pc = "done" /\ WellFormed(q) /\ q.in.date = GoodDate /\ ~ Oversized(q)
               /\ q.in.readOK /\ q.in.html.ok /\ K >= 1 /\ ~ q.storeErr) =>
                /\ q.status = 200
                /\ Len(q.body) = K
                /\ \A k \in 1..Len(q.body) : q.body[k].upload_date = RFC3339(D)
                /\ Len(rows) = K
                /\ \A k \in 1..Len(rows) : rows[k].row.upload_date = RFC3339(D)

OversizedUpload(q) == q.pc = "done" /\ WellFormed(q) /\ Oversized(q)

\* C9 as claimed: an authenticated upload of a file over the cap is answered
\* 413 whatever the other fields hold, and is neither parsed nor stored.
C9_OversizedAlways413 ==
    \A r \in Reqs :
        OversizedUpload(req[r]) =>
            req[r].status = 413 /\ req[r].called = {} /\ RowsOf(tbl, r) = <<>>

\* C9 amended: an authenticated upload of a file over the cap is answered
\* 413, or 400 when its date field is non-empty and malformed; in both cases
\* the file is neither parsed nor stored.
C9_OversizedRejected ==
    \A r \in Reqs :
        OversizedUpload(req[r]) =>
            /\ req[r].status = IF MalformedDate(req[r]) THEN 400 ELSE 413
            /\ req[r].called = {}
            /\ RowsOf(tbl, r) = <<>>

\* C9 witness: an oversized file holding funds, sent without a date
C9_Witness ==
    \E r \in Reqs :
        /\ OversizedUpload(req[r]) /\ req[r].status = 413
        /\ req[r].in.date = <<>> /\ req[r].in.html = Html(OneFundDoc)

====
